---------------------------- MODULE Spec2Model ----------------------------
(***************************************************************************)
(* Schnorr signatures of pySecp256k1/schnorr.py: sign / verify (BIP-340)   *)
(* and bcrypto410_sign / bcrypto410_verify (legacy variant).               *)
(*                                                                         *)
(* The handlers are translated line by line from schnorr.py.  What they    *)
(* import from the package (`from . import *`: the curve, the hash, the    *)
(* integer/byte codec, the SEC1 decoder) is modelled from the              *)
(* specification on a scaled-down instance: the curve is the secp256k1     *)
(* equation y^2 = x^3 + 7 over the field of p = 43 elements, whose group   *)
(* has prime order n = 31 (n < p < 2^width as for secp256k1), and a byte   *)
(* string is a sequence of digits of radix ByteBase, a "32-byte" buffer    *)
(* being KeyLen digits long, so that buffers decode to 0 .. 63.            *)
(***************************************************************************)
EXTENDS Integers, Sequences, FiniteSets, TLC

VARIABLES pc, op, msg, seckey0, aux_rand, rand, pubkey, sig, origin, result, salt

vars == <<pc, op, msg, seckey0, aux_rand, rand, pubkey, sig, origin, result, salt>>

(***************************************************************************)
(* Scaled program constants and the bounds of the explored inputs.         *)
(***************************************************************************)
ByteBase == 8
KeyLen == 2
p == 43
n == 31
G == <<2, 12>>

MsgLen == KeyLen
SigLen == 2 * KeyLen

MaxMsg == 1
MaxAux == 1
MaxRand == 1
MaxSalt == 1
MaxPubX == 7
MaxLegacyKey == 2

\* None: the absent point / the point at infinity (a list [x, y] otherwise).
None == <<>>
\* aux_rand=None, the default argument of sign.
NoAux == <<-1>>

(***************************************************************************)
(* Codec.                                                                  *)
(***************************************************************************)
RECURSIVE Pow(_, _)
Pow(b, k) == IF k = 0 THEN 1 ELSE b * Pow(b, k - 1)

RECURSIVE int_from_bytes(_)
int_from_bytes(b) ==
    IF b = <<>> THEN 0
    ELSE int_from_bytes(SubSeq(b, 1, Len(b) - 1)) * ByteBase + b[Len(b)]

bytes_from_int(x) ==
    [i \in 1..KeyLen |-> (x \div Pow(ByteBase, KeyLen - i)) % ByteBase]

RECURSIVE XorInt(_, _)
XorInt(a, b) ==
    IF a = 0 /\ b = 0 THEN 0
    ELSE (((a % 2) + (b % 2)) % 2) + 2 * XorInt(a \div 2, b \div 2)

xor_bytes(b0, b1) == [i \in 1..Len(b0) |-> XorInt(b0[i], b1[i])]

bytes_from_point(P) == bytes_from_int(P[1])

(***************************************************************************)
(* Hash: a digit-mixing function of the whole input, keyed by salt so that *)
(* the properties are checked for several hash functions.                  *)
(***************************************************************************)
RECURSIVE Mix(_, _)
Mix(data, h) ==
    IF data = <<>> THEN h
    ELSE Mix(Tail(data),
             (h * 5 + Head(data) + 3 * salt + 1) % Pow(ByteBase, KeyLen))

hash_sha256(data) == bytes_from_int(Mix(data, 7 + Len(data)))

tagged_hash(tag, data) ==
    LET tag_hash == hash_sha256(tag)
    IN  hash_sha256(tag_hash \o tag_hash \o data)

TagAux == <<1>>
TagNonce == <<2>>
TagChallenge == <<3>>

(***************************************************************************)
(* Curve arithmetic.                                                       *)
(***************************************************************************)
RECURSIVE ModPow(_, _, _)
ModPow(b, k, m) ==
    IF k = 0 THEN 1 % m
    ELSE IF k % 2 = 1 THEN (b * ModPow(b, k - 1, m)) % m
    ELSE LET h == ModPow(b, k \div 2, m) IN (h * h) % m

ModInv(a) == ModPow(a % p, p - 2, p)

point_add(P1, P2) ==
    IF P1 = None THEN P2
    ELSE IF P2 = None THEN P1
    ELSE IF P1[1] = P2[1] /\ P1[2] # P2[2] THEN None
    ELSE LET lam == IF P1 = P2
                    THEN (3 * P1[1] * P1[1] * ModInv(2 * P1[2])) % p
                    ELSE ((P2[2] - P1[2]) * ModInv(P2[1] - P1[1])) % p
             x3 == (lam * lam - P1[1] - P2[1]) % p
         IN  <<x3, (lam * (P1[1] - x3) - P1[2]) % p>>

RECURSIVE point_mul(_, _)
point_mul(P, k) ==
    IF k = 0 \/ P = None THEN None
    ELSE LET half == point_mul(point_add(P, P), k \div 2)
         IN  IF k % 2 = 1 THEN point_add(half, P) ELSE half

y_from_x(x) ==
    LET y_sq == (x * x * x + 7) % p
        y == ModPow(y_sq, (p + 1) \div 4, p)
    IN  IF (y * y) % p # y_sq THEN -1 ELSE y

has_even_y(P) == P[2] % 2 = 0

is_quad(y) == ModPow(y, (p - 1) \div 2, p) = 1

lift_x(b) ==
    LET x == int_from_bytes(b)
        y == y_from_x(x)
    IN  IF x >= p \/ y = -1 THEN None
        ELSE <<x, IF y % 2 = 0 THEN y ELSE p - y>>

encoded_from_point(P) ==
    <<IF P[2] % 2 = 1 THEN 3 ELSE 2>> \o bytes_from_int(P[1])

uncompressed_from_point(P) ==
    <<4>> \o bytes_from_int(P[1]) \o bytes_from_int(P[2])

\* PublicKey.decode: the SEC1 point, or None where the decoder raises.
PublicKey_decode(b) ==
    IF Len(b) = KeyLen + 1 /\ b[1] \in {2, 3}
    THEN LET x == int_from_bytes(SubSeq(b, 2, KeyLen + 1))
             y == y_from_x(x)
         IN  IF x >= p \/ y = -1 THEN None
             ELSE <<x, IF y % 2 = b[1] % 2 THEN y ELSE p - y>>
    ELSE IF Len(b) = 2 * KeyLen + 1 /\ b[1] = 4
    THEN LET x == int_from_bytes(SubSeq(b, 2, KeyLen + 1))
             y == int_from_bytes(SubSeq(b, KeyLen + 2, 2 * KeyLen + 1))
         IN  IF x < p /\ y < p /\ (y * y) % p = (x * x * x + 7) % p
             THEN <<x, y>> ELSE None
    ELSE None

(***************************************************************************)
(* What a call ends with: kind is "sig" (sign returned, in .sig), "bool"   *)
(* (verify returned, in .ok) or the exception raised; calls lists the      *)
(* curve collaborator operations the call invoked, in order; seckey and P  *)
(* are sign's normalised secret and public point.                          *)
(***************************************************************************)
NoResult ==
    [kind |-> "none", sig |-> <<>>, ok |-> FALSE, calls |-> <<>>,
     seckey |-> 0, P |-> None]

Raise(kind, calls) == [NoResult EXCEPT !.kind = kind, !.calls = calls]

ReturnBool(b, calls) ==
    [NoResult EXCEPT !.kind = "bool", !.ok = b, !.calls = calls]


(***************************************************************************)
(* sign (BIP-340).                                                         *)
(***************************************************************************)
\* Faulty variants of sign_seckey: the parity test inverted, and the secret
\* left as passed.
sign_seckey_swapped(P, d0) == IF has_even_y(P) THEN n - d0 ELSE d0

sign_seckey_unnormalised(P, d0) == d0

\* seckey = seckey0 if has_even_y(P) else n - seckey0
sign_seckey(P, d0) == IF has_even_y(P) THEN d0 ELSE n - d0

\* t = xor_bytes(bytes_from_int(seckey), tagged_hash("BIP0340/aux", ...));
\* rnd is what rand_k() draws when aux_rand is None.
sign_t(seckey, aux, rnd) ==
    xor_bytes(bytes_from_int(seckey),
              tagged_hash(TagAux,
                          IF aux = NoAux THEN bytes_from_int(rnd) ELSE aux))

sign_k0(t, P, m) ==
    int_from_bytes(tagged_hash(TagNonce, t \o bytes_from_point(P) \o m)) % n

\* Faulty variant of sign_k: the nonce left as derived.
sign_k_unadjusted(R, k0) == k0

\* k = n - k0 if not has_even_y(R) else k0
sign_k(R, k0) == IF ~has_even_y(R) THEN n - k0 ELSE k0

sign_e(r, P, m) ==
    int_from_bytes(tagged_hash(TagChallenge, r \o bytes_from_point(P) \o m)) % n

sign(m, seckey0B, aux, rnd) ==
    IF Len(m) # MsgLen THEN Raise("ValueError", <<>>)
    ELSE LET d0 == int_from_bytes(seckey0B) IN
    IF ~(1 <= d0 /\ d0 <= n - 1) THEN Raise("ValueError", <<>>)
    ELSE LET P == point_mul(G, d0)
             seckey == sign_seckey(P, d0)
             t == sign_t(seckey, aux, rnd)
             k0 == sign_k0(t, P, m)
         IN
    IF k0 = 0
    THEN [Raise("RuntimeError", <<"point_mul">>)
            EXCEPT !.seckey = seckey, !.P = P]
    ELSE LET R == point_mul(G, k0)
             k == sign_k(R, k0)
             r == bytes_from_point(R)
             e == sign_e(r, P, m)
         IN  [NoResult EXCEPT
                !.kind = "sig",
                !.sig = r \o bytes_from_int((k + e * seckey) % n),
                !.calls = <<"point_mul", "point_mul">>,
                !.seckey = seckey, !.P = P]

(***************************************************************************)
(* verify (BIP-340).                                                       *)
(***************************************************************************)
\* Faulty variant of verify_in_range: s is not tested.
verify_in_range_r_only(r, s) == ~(r >= p)

\* if (r >= p or s >= n): return False
verify_in_range(r, s) == ~(r >= p \/ s >= n)

\* if R is None or not has_even_y(R) or R.x != r: return False
verify_accepts(R, r) == ~(~has_even_y(R) \/ R[1] # r)

\* e = int_from_bytes(tagged_hash("BIP0340/challenge", ...)) % n
verify_e(m, pubkeyB, sigB) ==
    int_from_bytes(
        tagged_hash(TagChallenge, SubSeq(sigB, 1, KeyLen) \o pubkeyB \o m)) % n

\* From line 184 on, P being the lifted point.  Point(*(...)) unpacks the
\* sum: of None (the point at infinity) it raises TypeError before the
\* test `R is None` is reached.
verify_point(m, pubkeyB, sigB, P) ==
    LET r == int_from_bytes(SubSeq(sigB, 1, KeyLen))
        s == int_from_bytes(SubSeq(sigB, KeyLen + 1, Len(sigB)))
    IN
    IF ~verify_in_range(r, s) THEN ReturnBool(FALSE, <<"lift_x">>)
    ELSE LET e == verify_e(m, pubkeyB, sigB)
             sum == point_add(point_mul(G, s), point_mul(P, n - e))
             calls == <<"lift_x", "point_mul", "point_mul", "point_add">>
         IN  IF sum = None THEN Raise("TypeError", calls)
             ELSE ReturnBool(verify_accepts(sum, r), calls)

\* Faulty variant of verify_lifted: without the test of P, the use of None
\* as a point raises.
verify_lifted_unchecked(m, pubkeyB, sigB, P) ==
    IF P = None THEN Raise("TypeError", <<"lift_x">>)
    ELSE verify_point(m, pubkeyB, sigB, P)

\* P = lift_x(pubkey); if (P is None): return False
verify_lifted(m, pubkeyB, sigB, P) ==
    IF P = None THEN ReturnBool(FALSE, <<"lift_x">>)
    ELSE verify_point(m, pubkeyB, sigB, P)

verify(m, pubkeyB, sigB) ==
    IF Len(m) # MsgLen THEN Raise("ValueError", <<>>)
    ELSE IF Len(pubkeyB) # KeyLen THEN Raise("ValueError", <<>>)
    ELSE IF Len(sigB) # SigLen THEN Raise("ValueError", <<>>)
    ELSE verify_lifted(m, pubkeyB, sigB, lift_x(pubkeyB))

(***************************************************************************)
(* bcrypto410_sign / bcrypto410_verify (legacy variant).                   *)
(***************************************************************************)
bcrypto410_sign(m, seckey0B) ==
    IF Len(m) # MsgLen THEN Raise("ValueError", <<>>)
    ELSE LET seckey == int_from_bytes(seckey0B) IN
    IF ~(1 <= seckey /\ seckey <= n - 1) THEN Raise("ValueError", <<>>)
    ELSE LET k0 == int_from_bytes(hash_sha256(seckey0B \o m)) % n IN
    IF k0 = 0 THEN Raise("RuntimeError", <<>>)
    ELSE LET R == point_mul(G, k0)
             Rraw == bytes_from_int(R[1])
             P == point_mul(G, seckey)
             e == int_from_bytes(
                    hash_sha256(Rraw \o encoded_from_point(P) \o m)) % n
             k == IF ~is_quad(R[2]) THEN n - k0 ELSE k0
             s == (k + e * seckey) % n
         IN  [NoResult EXCEPT
                !.kind = "sig",
                !.sig = Rraw \o bytes_from_int(s),
                !.calls = <<"point_mul", "point_mul">>,
                !.seckey = seckey, !.P = P]

\* if R is None or not is_quad(R.y) or R.x != r: return False
bcrypto410_accepts(R, r) == ~(~is_quad(R[2]) \/ R[1] # r)

bcrypto410_verify(m, pubkeyB, sigB) ==
    IF Len(m) # MsgLen THEN Raise("ValueError", <<>>)
    ELSE IF Len(sigB) # SigLen THEN Raise("ValueError", <<>>)
    ELSE LET P == PublicKey_decode(pubkeyB) IN
    IF P = None THEN Raise("ValueError", <<"decode">>)
    ELSE LET r == int_from_bytes(SubSeq(sigB, 1, KeyLen))
             s == int_from_bytes(SubSeq(sigB, KeyLen + 1, Len(sigB)))
         IN
    IF r >= p \/ s >= n THEN ReturnBool(FALSE, <<"decode">>)
    ELSE LET e == int_from_bytes(
                    hash_sha256(SubSeq(sigB, 1, KeyLen) \o pubkeyB \o m)) % n
             sum == point_add(point_mul(G, s), point_mul(P, n - e))
             calls == <<"decode", "point_mul", "point_mul", "point_add">>
         IN  IF sum = None THEN Raise("TypeError", calls)
             ELSE ReturnBool(bcrypto410_accepts(sum, r), calls)

(***************************************************************************)
(* The inputs a caller passes.                                             *)
(***************************************************************************)
Buffers(L) == [1..L -> 0..(ByteBase - 1)]

\* Buffers one digit too short and one too long that decode to v.
WrongLen(v) == {Tail(bytes_from_int(v)), <<0>> \o bytes_from_int(v)}

Msgs == {bytes_from_int(v) : v \in 0..MaxMsg} \cup WrongLen(0)

SecKeys == Buffers(KeyLen) \cup WrongLen(3)

AuxRands == {NoAux} \cup {bytes_from_int(v) : v \in 0..MaxAux} \cup WrongLen(0)

PubKeys ==
    {bytes_from_int(x) : x \in (0..MaxPubX) \cup (p..(p + MaxPubX))}
        \cup WrongLen(2)

Sigs ==
    {r \o s : r \in Buffers(KeyLen), s \in Buffers(KeyLen)}
        \cup {Tail(bytes_from_int(2) \o bytes_from_int(1)),
              <<0>> \o bytes_from_int(2) \o bytes_from_int(1)}

LegacyPubKeys ==
    UNION {{encoded_from_point(point_mul(G, d)),
            uncompressed_from_point(point_mul(G, d))} : d \in 1..MaxLegacyKey}
        \cup {bytes_from_int(2), <<2>> \o bytes_from_int(0)}

(***************************************************************************)
(* The caller: idle, it makes one call with inputs of its choice; a call   *)
(* done, it may pass what sign returned to verify, as returned or with s   *)
(* replaced, or go back to idle.                                           *)
(***************************************************************************)
Init ==
    /\ pc = "idle"
    /\ op = "none"
    /\ msg = <<>>
    /\ seckey0 = <<>>
    /\ aux_rand = NoAux
    /\ rand = 0
    /\ pubkey = <<>>
    /\ sig = <<>>
    /\ origin = "none"
    /\ result = NoResult
    /\ salt \in 0..MaxSalt

CallSign ==
    /\ pc = "idle"
    /\ \E m \in Msgs, k \in SecKeys, a \in AuxRands, rnd \in 0..MaxRand :
         /\ (a # NoAux => rnd = 0)
         /\ pc' = "done"
         /\ op' = "sign"
         /\ msg' = m
         /\ seckey0' = k
         /\ aux_rand' = a
         /\ rand' = rnd
         /\ origin' = "fresh"
         /\ result' = sign(m, k, a, rnd)
    /\ UNCHANGED <<pubkey, sig, salt>>

CallBcryptoSign ==
    /\ pc = "idle"
    /\ \E m \in Msgs, k \in SecKeys :
         /\ pc' = "done"
         /\ op' = "bcrypto410_sign"
         /\ msg' = m
         /\ seckey0' = k
         /\ origin' = "fresh"
         /\ result' = bcrypto410_sign(m, k)
    /\ UNCHANGED <<aux_rand, rand, pubkey, sig, salt>>

CallVerify ==
    /\ pc = "idle"
    /\ \E m \in Msgs, pk \in PubKeys, sg \in Sigs :
         /\ pc' = "done"
         /\ op' = "verify"
         /\ msg' = m
         /\ pubkey' = pk
         /\ sig' = sg
         /\ origin' = "fresh"
         /\ result' = verify(m, pk, sg)
    /\ UNCHANGED <<seckey0, aux_rand, rand, salt>>

CallBcryptoVerify ==
    /\ pc = "idle"
    /\ \E m \in Msgs, pk \in LegacyPubKeys, sg \in Sigs :
         /\ pc' = "done"
         /\ op' = "bcrypto410_verify"
         /\ msg' = m
         /\ pubkey' = pk
         /\ sig' = sg
         /\ origin' = "fresh"
         /\ result' = bcrypto410_verify(m, pk, sg)
    /\ UNCHANGED <<seckey0, aux_rand, rand, salt>>

\* verify(msg, bytes_from_point(G * seckey0), sign(msg, seckey0, aux_rand))
VerifySigned ==
    /\ pc = "done" /\ op = "sign" /\ result.kind = "sig"
    /\ LET pk == bytes_from_point(point_mul(G, int_from_bytes(seckey0)))
       IN  /\ op' = "verify"
           /\ pubkey' = pk
           /\ sig' = result.sig
           /\ origin' = "signed"
           /\ result' = verify(msg, pk, result.sig)
    /\ UNCHANGED <<pc, msg, seckey0, aux_rand, rand, salt>>

\* The same with the signature's s replaced by another value.
VerifyTampered ==
    /\ pc = "done" /\ op = "sign" /\ result.kind = "sig"
    /\ \E s2 \in Buffers(KeyLen) :
         LET pk == bytes_from_point(point_mul(G, int_from_bytes(seckey0)))
             sg == SubSeq(result.sig, 1, KeyLen) \o s2
         IN  /\ s2 # SubSeq(result.sig, KeyLen + 1, SigLen)
             /\ op' = "verify"
             /\ pubkey' = pk
             /\ sig' = sg
             /\ origin' = "tampered"
             /\ result' = verify(msg, pk, sg)
    /\ UNCHANGED <<pc, msg, seckey0, aux_rand, rand, salt>>

\* bcrypto410_verify(msg, pub, bcrypto410_sign(msg, seckey0)), pub being
\* either SEC1 encoding of G * seckey0.
BcryptoVerifySigned ==
    /\ pc = "done" /\ op = "bcrypto410_sign" /\ result.kind = "sig"
    /\ \E enc \in {"compressed", "uncompressed"} :
         LET Pt == point_mul(G, int_from_bytes(seckey0))
             pk == IF enc = "compressed" THEN encoded_from_point(Pt)
                   ELSE uncompressed_from_point(Pt)
         IN  /\ op' = "bcrypto410_verify"
             /\ pubkey' = pk
             /\ sig' = result.sig
             /\ origin' = enc
             /\ result' = bcrypto410_verify(msg, pk, result.sig)
    /\ UNCHANGED <<pc, msg, seckey0, aux_rand, rand, salt>>

Return ==
    /\ pc = "done"
    /\ pc' = "idle"
    /\ op' = "none"
    /\ msg' = <<>>
    /\ seckey0' = <<>>
    /\ aux_rand' = NoAux
    /\ rand' = 0
    /\ pubkey' = <<>>
    /\ sig' = <<>>
    /\ origin' = "none"
    /\ result' = NoResult
    /\ UNCHANGED salt

Next ==
    \/ CallSign
    \/ CallBcryptoSign
    \/ CallVerify
    \/ CallBcryptoVerify
    \/ VerifySigned
    \/ VerifyTampered
    \/ BcryptoVerifySigned
    \/ Return

Spec == Init /\ [][Next]_vars

(***************************************************************************)
(* The state of a finished call, as the properties read it.                *)
(***************************************************************************)
Done(o) == pc = "done" /\ op = o

VerifyLensOK ==
    Len(msg) = MsgLen /\ Len(pubkey) = KeyLen /\ Len(sig) = SigLen

SigR == int_from_bytes(SubSeq(sig, 1, KeyLen))
SigS == int_from_bytes(SubSeq(sig, KeyLen + 1, Len(sig)))

SecInt == int_from_bytes(seckey0)
SecValid == 1 <= SecInt /\ SecInt <= n - 1

ReturnedFalse == result.kind = "bool" /\ ~result.ok
ReturnedTrue == result.kind = "bool" /\ result.ok

\* Some input buffer of the finished call has a wrong length.
WrongLength ==
    /\ pc = "done"
    /\ \/ Len(msg) # MsgLen
       \/ /\ op \in {"sign", "bcrypto410_sign"}
          /\ Len(seckey0) # KeyLen
       \/ /\ op = "sign"
          /\ aux_rand # NoAux
          /\ Len(aux_rand) # KeyLen
       \/ /\ op = "verify"
          /\ Len(pubkey) # KeyLen
       \/ /\ op = "bcrypto410_verify"
          /\ Len(pubkey) \notin {KeyLen + 1, 2 * KeyLen + 1}
       \/ /\ op \in {"verify", "bcrypto410_verify"}
          /\ Len(sig) # SigLen

\* Some invalid-input condition holds of the finished call.
InvalidInput ==
    \/ WrongLength
    \/ /\ pc = "done"
       /\ op \in {"sign", "bcrypto410_sign"}
       /\ ~SecValid
    \/ /\ pc = "done"
       /\ op \in {"verify", "bcrypto410_verify"}
       /\ Len(sig) = SigLen
       /\ (SigR >= p \/ SigS >= n)

(***************************************************************************)
(* Properties.                                                             *)
(***************************************************************************)

\* C1: verify accepts what sign returned, under the x-only public key of
\* the signing secret, whether the auxiliary randomness was supplied or
\* drawn.
C1_SignThenVerify ==
    (Done("verify") /\ origin = "signed") => ReturnedTrue

C1_Witness ==
    /\ Done("verify") /\ origin = "signed"
    /\ SecValid /\ Len(seckey0) = KeyLen
    /\ aux_rand = NoAux
    /\ ReturnedTrue

\* C2: a call with a wrong-length input buffer raises the invalid-input
\* error (ValueError); it returns neither a signature nor a boolean.
C2_WrongLengthRaises ==
    WrongLength => result.kind = "ValueError"

\* C3: verify returns false, and raises nothing, when lift_x finds no point
\* for the public key.
C3_UnliftableKeyFalse ==
    (Done("verify") /\ VerifyLensOK /\ lift_x(pubkey) = None) => ReturnedFalse

C3_Witness ==
    /\ Done("verify") /\ VerifyLensOK
    /\ int_from_bytes(pubkey) < p
    /\ lift_x(pubkey) = None
    /\ ReturnedFalse

\* C4: with the s of a signature sign returned replaced by any other
\* value, verify returns false.
C4_TamperedSFalse ==
    (Done("verify") /\ origin = "tampered") => ReturnedFalse

\* C5: verify returns false when the public key lifts and r >= p or s >= n.
C5_OutOfRangeFalse ==
    (/\ Done("verify") /\ VerifyLensOK
     /\ lift_x(pubkey) # None
     /\ (SigR >= p \/ SigS >= n)) => ReturnedFalse

C5_Witness ==
    /\ Done("verify") /\ VerifyLensOK
    /\ lift_x(pubkey) # None
    /\ SigR < p /\ SigS >= n
    /\ ReturnedFalse

\* C6: verify returns false, and raises nothing, when R = G*s + P*(n-e) is
\* the point at infinity.
C6_InfinityFalse ==
    (/\ Done("verify") /\ VerifyLensOK
     /\ lift_x(pubkey) # None
     /\ SigR < p /\ SigS < n
     /\ point_add(point_mul(G, SigS),
                  point_mul(lift_x(pubkey), n - verify_e(msg, pubkey, sig)))
          = None) => ReturnedFalse

\* C7: sign's normalised secret d is d0 when (G*d0).y is even and n - d0
\* otherwise; G*d has even y and the x of G*d0, so the key bytes sign
\* hashes are those of the even-y point G*d.
C7_SecretNormalised ==
    (Done("sign") /\ Len(msg) = MsgLen /\ SecValid) =>
        LET P0 == point_mul(G, SecInt)
            Pd == point_mul(G, result.seckey)
        IN  /\ result.seckey = IF P0[2] % 2 = 0 THEN SecInt ELSE n - SecInt
            /\ Pd # None
            /\ Pd[2] % 2 = 0
            /\ Pd[1] = P0[1]
            /\ bytes_from_point(result.P) = bytes_from_point(Pd)

C7_Witness ==
    /\ Done("sign") /\ result.kind = "sig" /\ SecValid
    /\ point_mul(G, SecInt)[2] % 2 = 1
    /\ result.seckey = n - SecInt

\* C8: every invalid-input condition ends the call before any curve
\* collaborator operation is invoked.
C8_InvalidBeforeCurve ==
    InvalidInput => (result.kind # "sig" /\ result.calls = <<>>)

\* C9: bcrypto410_verify accepts what bcrypto410_sign returned under the
\* signer's public point in either SEC1 encoding.
C9_LegacyEitherEncoding ==
    (Done("bcrypto410_verify") /\ origin \in {"compressed", "uncompressed"})
        => ReturnedTrue

\* C10: with supplied auxiliary randomness, sign(m, d0, a) and
\* sign(m, n - d0, a) end alike, with the identical signature, and d0 and
\* n - d0 have the same x-only public key.
C10_NegatedSecretSameSignature ==
    (Done("sign") /\ Len(msg) = MsgLen /\ SecValid /\ aux_rand # NoAux) =>
        LET other == sign(msg, bytes_from_int(n - SecInt), aux_rand, rand)
        IN  /\ other.kind = result.kind
            /\ other.sig = result.sig
            /\ bytes_from_point(point_mul(G, n - SecInt))
                 = bytes_from_point(point_mul(G, SecInt))

C10_Witness ==
    /\ Done("sign") /\ result.kind = "sig"
    /\ SecValid /\ Len(seckey0) = KeyLen
    /\ aux_rand # NoAux /\ Len(aux_rand) = KeyLen
    /\ result.seckey # SecInt

=============================================================================
